---- MODULE Spec2Model ----
(***************************************************************************)
(* Model of netflix_streamlit.py: a Streamlit script that loads the        *)
(* catalogue once (cached), reads three sidebar widgets, filters a copy of *)
(* the frame and computes five aggregates.  Every widget interaction       *)
(* re-executes the whole script from top to bottom.                        *)
(*                                                                         *)
(* A frame is a sequence of rows (records); a Series with an index is a    *)
(* sequence of <<key, value>> pairs in the order pandas reports it.        *)
(***************************************************************************)
EXTENDS Integers, Sequences, FiniteSets, TLC

\* ------------------------------------------------------------------ bounds
MaxRecords == 3

\* ------------------------------------------------- missing-value markers
\* pandas reads an empty cell of an object column as NaN, of a numeric
\* column as NaN, and to_datetime turns a missing date into NaT.
StrNaN == "NaN"
NumNaN == 0
NaT == 0

\* ------------------------------------------------------ the CSV contents
\* One line of netflix_titles.csv: type, country, release_year and
\* date_added as written, <<month, year>>, or <<>> when the cell is empty.
Row(t, c, y, d) == [type |-> t, country |-> c, release_year |-> y, date_added |-> d]

\* The lines a catalogue file is drawn from.  Between them they hold, for
\* every column the script reads, two values and the missing value: two
\* types, two countries, a year inside and a year below the slider default,
\* two months of one year and a month of another.
CsvRows ==
    { Row("Movie",   "IN",   2000,   <<12, 2019>>),
      Row("TV Show", "IN",   2000,   <<1, 2019>>),
      Row(StrNaN,    "IN",   2000,   <<6, 2020>>),
      Row("Movie",   "UK",   2000,   <<>>),
      Row("Movie",   StrNaN, 2000,   <<12, 2019>>),
      Row("Movie",   "IN",   1999,   <<6, 2020>>),
      Row("Movie",   "IN",   NumNaN, <<1, 2019>>) }

YearCells == {r.release_year : r \in CsvRows}

RECURSIVE SeqsUpTo(_, _)
SeqsUpTo(S, n) ==
    IF n = 0 THEN {<<>>}
    ELSE LET shorter == SeqsUpTo(S, n - 1)
         IN  shorter \cup {Append(s, x) : s \in {t \in shorter : Len(t) = n - 1},
                                              x \in S}

\* a title is listed once
NoRepeat(s) == \A i \in DOMAIN s : \A j \in DOMAIN s : i # j => s[i] # s[j]

CsvFiles == {f \in SeqsUpTo(CsvRows, MaxRecords) : NoRepeat(f)}

\* --------------------------------------------------------- pandas helpers
\* Python evaluates the receiver of a method call once, then applies the
\* method to the value: v.F()
Pipe(v, F(_)) == CHOOSE r \in {F(x) : x \in {v}} : TRUE

Range(s) == {s[i] : i \in DOMAIN s}

Min(S) == CHOOSE m \in S : \A x \in S : m <= x
Max(S) == CHOOSE m \in S : \A x \in S : m >= x

\* Python's ordering of the strings that occur as group keys
SortedStrings == <<"IN", "UK">>
StrRank(k) == CHOOSE i \in DOMAIN SortedStrings : SortedStrings[i] = k

\* pd.to_datetime on one cell: "Month d, yyyy" -> Timestamp (here yyyymm)
to_datetime(cell) == IF cell = <<>> THEN NaT ELSE cell[2] * 100 + cell[1]

\* the bucket is the whole timestamp instead of its year
dt_year_full(ts) == IF ts = NaT THEN NumNaN ELSE ts

\* Series.dt.year on one cell
dt_year(ts) == IF ts = NaT THEN NumNaN ELSE ts \div 100

\* pd.read_csv: one record per line, show_id taken from the file
read_csv(file) ==
    [i \in DOMAIN file |->
        [show_id |-> i, type |-> file[i].type, country |-> file[i].country,
         release_year |-> file[i].release_year, date_added |-> file[i].date_added]]

load_data(file) ==
    [i \in DOMAIN file |-> [read_csv(file)[i] EXCEPT !.date_added = to_datetime(@)]]

Column(frame, name) == [i \in DOMAIN frame |-> frame[i][name]]

\* dropna=False: the missing value is kept and gets a key of its own
dropna_keep(col) == col

\* Series.dropna() on an object column
dropna(col) == SelectSeq(col, LAMBDA v : v # StrNaN)

\* Series.unique(): distinct values in order of first appearance
FirstSeen(col) == {i \in DOMAIN col : \A j \in 1..(i - 1) : col[j] # col[i]}
unique(col) ==
    Pipe(FirstSeen(col), LAMBDA firsts :
        [k \in 1..Cardinality(firsts) |->
            col[CHOOSE i \in firsts : Cardinality({j \in firsts : j <= i}) = k]])

\* comparisons with NaN are False
Ge(a, b) == a # NumNaN /\ a >= b
Le(a, b) == a # NumNaN /\ a <= b

\* sort_values(ascending=False) as value_counts applies it: by value,
\* descending; equal values stay in the order the tally lists them, which is
\* the order of first appearance in the frame
sort_values_desc(s) ==
    [p \in DOMAIN s |->
        s[CHOOSE i \in DOMAIN s :
            Cardinality({j \in DOMAIN s :
                \/ s[j][2] > s[i][2]
                \/ s[j][2] = s[i][2] /\ j < i}) = p - 1]]

\* the tally behind value_counts: one entry per distinct non-missing value,
\* in order of first appearance
Tally(col) ==
    Pipe(Pipe(dropna(col), unique), LAMBDA keys :
        [i \in DOMAIN keys |->
            <<keys[i], Cardinality({j \in DOMAIN col : col[j] = keys[i]})>>])

\* Series.value_counts(): dropna=True, sort=True, ascending=False
value_counts(col) == Pipe(Tally(col), sort_values_desc)

\* Series.nlargest(n): keep='first'
nlargest(s, n) ==
    Pipe(sort_values_desc(s), LAMBDA sorted :
        SubSeq(sorted, 1, IF n < Len(sorted) THEN n ELSE Len(sorted)))

\* the group keys of a groupby come out sorted ascending (sort=True)
SortAsc(S) ==
    [k \in 1..Cardinality(S) |->
        CHOOSE m \in S : Cardinality({x \in S : x <= m}) = k]

\* df.groupby(df['date_added'].dt.year).count()['show_id'].dropna()
groupby_year_count(frame) ==
    Pipe(Pipe({dt_year(frame[i].date_added) : i \in DOMAIN frame} \ {NumNaN}, SortAsc),
         LAMBDA keys :
            [k \in DOMAIN keys |->
                <<keys[k], Cardinality({i \in DOMAIN frame :
                                          /\ dt_year(frame[i].date_added) = keys[k]
                                          /\ frame[i].show_id # NumNaN})>>])

\* lexicographic order of the (release_year, country) group keys
PairLess(p, q) == \/ p[1] < q[1]
                  \/ p[1] = q[1] /\ StrRank(p[2]) < StrRank(q[2])

SortPairs(S) ==
    [k \in 1..Cardinality(S) |->
        CHOOSE p \in S : Cardinality({q \in S : q = p \/ PairLess(q, p)}) = k]

\* df.groupby(['release_year', 'country']).size().reset_index(name='title_count')
\* (dropna=True: a row with a missing key belongs to no group)
GroupKeys(frame) ==
    {<<frame[i].release_year, frame[i].country>> :
        i \in {j \in DOMAIN frame :
                 frame[j].release_year # NumNaN /\ frame[j].country # StrNaN}}
\* every cell holds the size of its release_year group, whatever the country
groupby_size_year(frame) ==
    Pipe(Pipe(GroupKeys(frame), SortPairs), LAMBDA keys :
        [k \in DOMAIN keys |->
            <<keys[k][1], keys[k][2],
              Cardinality({i \in DOMAIN frame :
                  frame[i].release_year = keys[k][1]})>>])

groupby_size(frame) ==
    Pipe(Pipe(GroupKeys(frame), SortPairs), LAMBDA keys :
        [k \in DOMAIN keys |->
            <<keys[k][1], keys[k][2],
              Cardinality({i \in DOMAIN frame :
                  /\ frame[i].release_year = keys[k][1]
                  /\ frame[i].country = keys[k][2]})>>])

\* ------------------------------------------------------------ the widgets
TopN == 10
DefaultYear == <<2000, 2020>>

\* release_year.min() / .max() skip NaN; int(NaN) raises
HasYear(frame) == \E i \in DOMAIN frame : frame[i].release_year # NumNaN
YearMin(frame) == Min(Range(Column(frame, "release_year")) \ {NumNaN})
YearMax(frame) == Max(Range(Column(frame, "release_year")) \ {NumNaN})

TypeOptions(frame) ==
    {"All"} \cup Range(Pipe(dropna(Column(frame, "type")), unique))
CountryOptions(frame) ==
    {"All"} \cup Range(Pipe(dropna(Column(frame, "country")), unique))

\* st.slider widens its bounds so that they contain the default value
SliderMin(frame) == Min({YearMin(frame), DefaultYear[1]})
SliderMax(frame) == Max({YearMax(frame), DefaultYear[2]})

\* the slider positions the user is taken to stop at
YearStops == (YearCells \ {NumNaN}) \cup {DefaultYear[1], DefaultYear[2]}
YearOptions(frame) ==
    {<<lo, hi>> \in YearStops \X YearStops :
        SliderMin(frame) <= lo /\ lo <= hi /\ hi <= SliderMax(frame)}

\* ------------------------------------------------------------- the script
FilterType(view, t) ==
    IF t # "All" THEN SelectSeq(view, LAMBDA r : r.type = t) ELSE view

FilterCountry(view, c) ==
    IF c # "All" THEN SelectSeq(view, LAMBDA r : r.country = c) ELSE view

\* upper end of the range exclusive
FilterYear_excl(view, yr) ==
    SelectSeq(view, LAMBDA r : Ge(r.release_year, yr[1]) /\ r.release_year < yr[2])

FilterYear(view, yr) ==
    SelectSeq(view, LAMBDA r : Ge(r.release_year, yr[1]) /\ Le(r.release_year, yr[2]))

\* the country mask is taken from the full frame, losing the type filter
ApplyFilters_restart(store, t, c, yr) ==
    LET copy == store
        byCountry == IF c # "All" THEN FilterCountry(copy, c) ELSE FilterType(copy, t)
    IN  FilterYear(byCountry, yr)

ApplyFilters(store, t, c, yr) ==
    LET copy == store
        byType == FilterType(copy, t)
        byCountry == FilterCountry(byType, c)
    IN  FilterYear(byCountry, yr)

\* ------------------------------------------------------------------ state
VARIABLES csv, pc, selected_type, selected_country, selected_year,
          df, filtered_df, type_counts, country_counts, time_data,
          heatmap_data, top_countries_df

widgets == <<selected_type, selected_country, selected_year>>
charts == <<type_counts, country_counts, time_data, heatmap_data, top_countries_df>>
vars == <<csv, pc, widgets, df, filtered_df, charts>>

Init ==
    /\ csv \in CsvFiles
    /\ pc = "start"
    /\ selected_type = "All"
    /\ selected_country = "All"
    /\ selected_year = DefaultYear
    /\ df = <<>>
    /\ filtered_df = <<>>
    /\ type_counts = <<>>
    /\ country_counts = <<>>
    /\ time_data = <<>>
    /\ heatmap_data = <<>>
    /\ top_countries_df = <<>>

\* the filter rebinds df itself instead of a copy
LoadAndFilter_inplace(t, c, yr) ==
    /\ filtered_df' = ApplyFilters(load_data(csv), t, c, yr)
    /\ df' = filtered_df'

\* lines 13 and 24-30: df is bound to what the cached load_data returns and
\* is never rebound; the filter works on a copy
LoadAndFilter(t, c, yr) ==
    /\ df' = load_data(csv)
    /\ filtered_df' = ApplyFilters(df', t, c, yr)

\* the type chart is drawn from the filtered view
Charts_filtered ==
    /\ type_counts' = Pipe(Column(filtered_df', "type"), value_counts)
    /\ country_counts' =
          Pipe(Pipe(Column(df', "country"), value_counts),
               LAMBDA counts : nlargest(counts, TopN))
    /\ time_data' = groupby_year_count(df')
    /\ heatmap_data' = groupby_size(df')
    /\ top_countries_df' = Pipe(Column(df', "country"), value_counts)

\* lines 36-49 and 115-123: the five aggregates
Charts ==
    /\ type_counts' = Pipe(Column(df', "type"), value_counts)
    /\ country_counts' =
          Pipe(Pipe(Column(df', "country"), value_counts),
               LAMBDA counts : nlargest(counts, TopN))
    /\ time_data' = groupby_year_count(df')
    /\ heatmap_data' = groupby_size(df')
    /\ top_countries_df' = Pipe(Column(df', "country"), value_counts)

\* one execution of the script, the widgets returning t, c and yr
Run(t, c, yr) ==
    /\ selected_type' = t
    /\ selected_country' = c
    /\ selected_year' = yr
    /\ LoadAndFilter(t, c, yr)
    /\ Charts
    /\ pc' = "done"
    /\ UNCHANGED csv

\* first execution: every widget returns its default
FirstRun ==
    /\ pc = "start"
    /\ HasYear(load_data(csv))
    /\ Run("All", "All", DefaultYear)

\* int(df['release_year'].min()) raises on a frame without any release_year
SliderFails ==
    /\ pc = "start"
    /\ ~HasYear(load_data(csv))
    /\ pc' = "error"
    /\ UNCHANGED <<csv, widgets, df, filtered_df, charts>>

SelectType ==
    /\ pc = "done"
    /\ \E t \in TypeOptions(load_data(csv)) \ {selected_type} :
          Run(t, selected_country, selected_year)

SelectCountry ==
    /\ pc = "done"
    /\ \E c \in CountryOptions(load_data(csv)) \ {selected_country} :
          Run(selected_type, c, selected_year)

SelectYear ==
    /\ pc = "done"
    /\ \E yr \in YearOptions(load_data(csv)) \ {selected_year} :
          Run(selected_type, selected_country, yr)

Next == FirstRun \/ SliderFails \/ SelectType \/ SelectCountry \/ SelectYear

Spec == Init /\ [][Next]_vars

\* ================================================================ claims
Done == pc = "done"

\* a record meets the three constraints of a filter spec (type, country, range)
Satisfies(r, t, c, yr) ==
    /\ t = "All" \/ r.type = t
    /\ c = "All" \/ r.country = c
    /\ r.release_year # NumNaN
    /\ yr[1] <= r.release_year
    /\ r.release_year <= yr[2]

Selected(r) == Satisfies(r, selected_type, selected_country, selected_year)

\* the year of date_added as written in the file
WrittenYear(i) == csv[i].date_added[2]
Dated == {i \in DOMAIN csv : csv[i].date_added # <<>>}

RECURSIVE SumCounts(_, _)
SumCounts(s, n) == IF n = 0 THEN 0 ELSE s[n][2] + SumCounts(s, n - 1)

Missing(name) == {i \in DOMAIN df : df[i][name] = StrNaN}

\* sum of the title_count cells of the row of year y in the zero-filled matrix
RECURSIVE RowSumUpTo(_, _)
RowSumUpTo(y, n) ==
    IF n = 0 THEN 0
    ELSE (IF heatmap_data[n][1] = y THEN heatmap_data[n][3] ELSE 0) + RowSumUpTo(y, n - 1)
RowSum(y) == RowSumUpTo(y, Len(heatmap_data))

\* C1: the filtered view holds exactly the records of the store that meet the
\* type, country and inclusive year-range constraints together, each once and
\* in the order of the store.
C1_FilterExact ==
    Done =>
        /\ \A i \in DOMAIN df :
              (\E k \in DOMAIN filtered_df : filtered_df[k] = df[i]) <=> Selected(df[i])
        /\ \A k \in DOMAIN filtered_df : \E i \in DOMAIN df : df[i] = filtered_df[k]
        /\ \A k \in DOMAIN filtered_df : \A m \in DOMAIN filtered_df :
              k < m => filtered_df[k].show_id < filtered_df[m].show_id

\* a record at the lower end and a record at the upper end of the range are
\* kept while a record one year below the range and a record of another type
\* are dropped
C1_Witness ==
    /\ Done
    /\ selected_type # "All"
    /\ \E k \in DOMAIN filtered_df : filtered_df[k].release_year = selected_year[1]
    /\ \E k \in DOMAIN filtered_df : filtered_df[k].release_year = selected_year[2]
    /\ \E i \in DOMAIN df : df[i].release_year = selected_year[1] - 1
    /\ \E i \in DOMAIN df : df[i].type # selected_type /\ df[i].release_year = selected_year[2]
    /\ Len(filtered_df) < Len(df)

\* C2: with every control at its wildcard (type 'All', country 'All', year
\* control untouched) the view equals the full store.
C2_WildcardIdentity ==
    (Done /\ selected_type = "All" /\ selected_country = "All"
          /\ selected_year = DefaultYear)
        => filtered_df = df

\* C3: applying the three constraints in any order gives the view of the
\* script, and applying any second spec B to the view of the current spec A
\* gives the records of the store that meet A and B together.
C3_Composable ==
    Done =>
        /\ FilterType(FilterCountry(FilterYear(df, selected_year), selected_country),
                      selected_type) = filtered_df
        /\ FilterCountry(FilterYear(FilterType(df, selected_type), selected_year),
                         selected_country) = filtered_df
        /\ FilterYear(FilterType(FilterCountry(df, selected_country), selected_type),
                      selected_year) = filtered_df
        /\ \A t \in TypeOptions(df), c \in CountryOptions(df), yr \in YearOptions(df) :
              ApplyFilters(filtered_df, t, c, yr)
                 = SelectSeq(df, LAMBDA r : Selected(r) /\ Satisfies(r, t, c, yr))

\* all three constraints are active and each of them alone drops a record
C3_Witness ==
    /\ Done
    /\ selected_type # "All"
    /\ selected_country # "All"
    /\ \E i \in DOMAIN df : df[i].type # selected_type
    /\ \E i \in DOMAIN df : df[i].country # selected_country
    /\ \E i \in DOMAIN df : ~Le(df[i].release_year, selected_year[2])
    /\ FilterType(df, selected_type) # FilterCountry(df, selected_country)

\* C4: the top-N country series has at most N entries, no excluded key has a
\* larger count than an included one, counts descend, and keys with equal
\* counts are ordered and selected by ascending key.
C4_TopNAscendingTies ==
    Done =>
        /\ Len(country_counts) <= TopN
        /\ \A i \in DOMAIN country_counts : \A j \in DOMAIN top_countries_df :
              (\A k \in DOMAIN country_counts : country_counts[k][1] # top_countries_df[j][1])
                 => /\ country_counts[i][2] >= top_countries_df[j][2]
                    /\ country_counts[i][2] = top_countries_df[j][2]
                          => StrRank(country_counts[i][1]) < StrRank(top_countries_df[j][1])
        /\ \A i \in DOMAIN country_counts : \A j \in DOMAIN country_counts :
              i < j =>
                 \/ country_counts[i][2] > country_counts[j][2]
                 \/ /\ country_counts[i][2] = country_counts[j][2]
                    /\ StrRank(country_counts[i][1]) < StrRank(country_counts[j][1])

\* C5: the value counts of type and of country have unique keys, no key for
\* the missing value, and counts that sum to the number of records less the
\* records with a missing value in that column.
C5_ValueCounts ==
    Done =>
        /\ \A i \in DOMAIN type_counts : \A j \in DOMAIN type_counts :
              i # j => type_counts[i][1] # type_counts[j][1]
        /\ \A i \in DOMAIN top_countries_df : \A j \in DOMAIN top_countries_df :
              i # j => top_countries_df[i][1] # top_countries_df[j][1]
        /\ \A i \in DOMAIN type_counts : type_counts[i][1] # StrNaN
        /\ \A i \in DOMAIN top_countries_df : top_countries_df[i][1] # StrNaN
        /\ SumCounts(type_counts, Len(type_counts)) <= Len(df)
        /\ SumCounts(top_countries_df, Len(top_countries_df)) <= Len(df)
        /\ SumCounts(type_counts, Len(type_counts)) = Len(df) <=> Missing("type") = {}
        /\ SumCounts(top_countries_df, Len(top_countries_df)) = Len(df)
              <=> Missing("country") = {}

\* a type is missing in one record, the other records give two keys with
\* different counts
C5_Witness ==
    /\ Done
    /\ Missing("type") # {}
    /\ Missing("country") = {}
    /\ Len(type_counts) = 1
    /\ SumCounts(type_counts, Len(type_counts)) = Len(df) - 1
    /\ Len(top_countries_df) = 2
    /\ top_countries_df[1][2] > top_countries_df[2][2]

\* C6 as stated: every row of the zero-filled (release_year, country) matrix
\* sums to the number of records of that release_year.
C6_RowSumsAllRecords ==
    Done =>
        \A y \in YearCells \ {NumNaN} :
            RowSum(y) = Cardinality({i \in DOMAIN df : df[i].release_year = y})

\* C6 amended: every row of the zero-filled matrix sums to the number of
\* records of that release_year whose country is present.
C6_RowSumsPresentCountry ==
    Done =>
        \A y \in YearCells \ {NumNaN} :
            RowSum(y) = Cardinality({i \in DOMAIN df :
                                        df[i].release_year = y /\ df[i].country # StrNaN})

\* a year with one record that has a country and one record that has none
C6_Witness ==
    /\ Done
    /\ \E i \in DOMAIN df : \E j \in DOMAIN df :
          /\ df[i].release_year # NumNaN
          /\ df[i].release_year = df[j].release_year
          /\ df[i].country = StrNaN
          /\ df[j].country # StrNaN
    /\ Len(heatmap_data) >= 1

\* C7: the series has one bucket for each year written in a date_added cell,
\* holding the number of records dated in that year, no bucket for records
\* without a date, and its buckets ascend by year.
C7_TimeBuckets ==
    Done =>
        /\ {time_data[k][1] : k \in DOMAIN time_data} = {WrittenYear(i) : i \in Dated}
        /\ \A k \in DOMAIN time_data :
              time_data[k][2] = Cardinality({i \in Dated : WrittenYear(i) = time_data[k][1]})
        /\ \A k \in DOMAIN time_data : \A m \in DOMAIN time_data :
              k < m => time_data[k][1] < time_data[m][1]

\* the later year comes first in the store and a record has no date
C7_Witness ==
    /\ Done
    /\ \E i \in Dated : \E j \in Dated : i < j /\ WrittenYear(i) > WrittenYear(j)
    /\ Dated # DOMAIN csv
    /\ Len(time_data) = 2

\* C9: a rerun with a new spec leaves the store as it was, and its view is
\* the records of that store meeting the new spec, whatever was applied before.
C9_StoreUntouched ==
    [][pc = "done" =>
          /\ df' = df
          /\ filtered_df' =
                SelectSeq(df, LAMBDA r :
                    Satisfies(r, selected_type', selected_country', selected_year'))]_vars

\* after the default spec and at least one other spec: a view that dropped
\* some records and kept others
C9_Witness ==
    /\ Done
    /\ <<selected_type, selected_country, selected_year>> # <<"All", "All", DefaultYear>>
    /\ filtered_df # <<>>
    /\ Len(filtered_df) < Len(df)

\* C10: a rerun with another filter selection leaves the five aggregates as
\* they were.
C10_ChartsIgnoreFilter ==
    [][pc = "done" => charts' = charts]_vars

\* the view is empty and differs from the store, yet the aggregates count
\* the records of the store
C10_Witness ==
    /\ Done
    /\ filtered_df = <<>>
    /\ selected_type # "All"
    /\ SumCounts(type_counts, Len(type_counts)) = Len(df)
    /\ Len(df) = MaxRecords
    /\ time_data # <<>>
    /\ heatmap_data # <<>>

====
